---- MODULE Spec2Model ----
(***************************************************************************)
(* Model of the content-block segmenter (src/helpers/section-parser.ts),    *)
(* of the HM003 rule reference-link-section-placement                      *)
(* (src/rules/reference-link-section-placement.ts), and of the rules HM002 *)
(* fenced-code-fence-length, HM004 setext-heading-blank-lines and HM001    *)
(* list-item-marker-space.                                                 *)
(*                                                                         *)
(* A line is a sequence of one-character strings; a document is a sequence *)
(* of lines.  The loop index i of the source is kept 0-based, line numbers *)
(* are 1-based as in the source, so lines[i] of the source is lines[i + 1] *)
(* here.                                                                   *)
(***************************************************************************)
EXTENDS Integers, Sequences, FiniteSets, TLC

VARIABLES
    lines,                  \* params.lines: the document
    given,                  \* history: the document handed to the call
    log,                    \* history: the results of the calls that returned
    pc,                     \* "parse", "index", "check" (HM003), "fence" (HM002),
                            \* "setext" (HM004), "list" (HM001), "done"
    i,                      \* loop index over the lines (0-based)
    inCodeBlock,            \* inside a fenced code block
    codeBlockFence,         \* parseContentBlocks, HM004: opening fence character
    codeBlockFenceLength,   \* parseContentBlocks, HM004: opening fence length
    openingFenceChar,       \* HM002: opening fence character
    openingFenceLength,     \* HM002: opening fence length
    openingIndent,          \* HM002: white space before the opening fence
    blockStartLine,         \* parseContentBlocks: start of the block in progress
    blocks,                 \* parseContentBlocks: blocks pushed so far
    headings,               \* history: heading constructs met, [first, last]
    labelUsageBlock,        \* rule: label -> block of first usage (insertion order)
    ub,                     \* rule: index of the next block of the usage loop
    cb,                     \* rule: index of the next block of the check loop
    errors                  \* rule: onError calls so far

vars == <<lines, given, log, pc, i, inCodeBlock, codeBlockFence,
          codeBlockFenceLength, openingFenceChar, openingFenceLength,
          openingIndent, blockStartLine, blocks, headings, labelUsageBlock, ub,
          cb, errors>>

\* what a call of the HM003 rule function leaves alone
otherVars == <<given, log, openingFenceChar, openingFenceLength, openingIndent>>

\* what a call of another rule function leaves alone
placementVars == <<given, log, blockStartLine, blocks, headings,
                   labelUsageBlock, ub, cb>>

----------------------------------------------------------------------------
(* Bounds of the model *)

MaxLen == 4

\* lines before and after the body of a composed document
MaxCtx == 2

\* calls of the rule function in a row
MaxRuns == 3

----------------------------------------------------------------------------
(* Strings *)

SetMax(S) == CHOOSE x \in S : \A y \in S : y <= x
SetMin(S) == CHOOSE x \in S : \A y \in S : x <= y

\* the backtick character (the parser accepts no backtick in a string, so the
\* character is written by name; only its identity matters)
Backtick == "BACKTICK"

\* white space of a JavaScript regular expression, over the model's characters
IsSpace(c) == c \in {" ", "\t"}

\* where a greedy run of white space started at position p of s stops: the
\* first position q >= p that holds no white space (Len(s) + 1 if none)
SkipSpaces(s, p) ==
    CHOOSE q \in p..(Len(s) + 1) :
        /\ \A k \in p..(q - 1) : IsSpace(s[k])
        /\ (q = Len(s) + 1 \/ ~IsSpace(s[q]))

\* where a greedy run of the character c started at position p of s stops
SkipChar(s, p, c) ==
    CHOOSE q \in p..(Len(s) + 1) :
        /\ \A k \in p..(q - 1) : s[k] = c
        /\ (q = Len(s) + 1 \/ s[q] # c)

\* where a greedy run of characters other than "]" started at p stops
SkipLabel(s, p) ==
    CHOOSE q \in p..(Len(s) + 1) :
        /\ \A k \in p..(q - 1) : s[k] # "]"
        /\ (q = Len(s) + 1 \/ s[q] = "]")

\* String.prototype.trim
Trim(s) ==
    LET nonSpace == {k \in 1..Len(s) : ~IsSpace(s[k])}
    IN  IF nonSpace = {} THEN <<>>
        ELSE SubSeq(s, SetMin(nonSpace), SetMax(nonSpace))

UpperChars == <<"A", "B", "C", "D", "E", "F", "G", "H", "I", "J", "K", "L", "M",
                "N", "O", "P", "Q", "R", "S", "T", "U", "V", "W", "X", "Y", "Z">>
LowerChars == <<"a", "b", "c", "d", "e", "f", "g", "h", "i", "j", "k", "l", "m",
                "n", "o", "p", "q", "r", "s", "t", "u", "v", "w", "x", "y", "z">>

\* String.prototype.toLowerCase
toLowerCase(s) ==
    [k \in 1..Len(s) |->
        IF \E u \in 1..26 : UpperChars[u] = s[k]
        THEN LowerChars[CHOOSE u \in 1..26 : UpperChars[u] = s[k]]
        ELSE s[k]]

----------------------------------------------------------------------------
(* The regular expressions of section-parser.ts *)

NoFence == [matched |-> FALSE, indent |-> 0, fence0 |-> "", length |-> 0]

\* fenceMatch: optional white space, then 3 or more backticks or 3 or more
\* tildes, anchored at the line start; fence0 is fence[0], length is fence.length
fenceMatch(line) ==
    LET p == SkipSpaces(line, 1)
    IN  IF p <= Len(line) /\ line[p] \in {Backtick, "~"}
        THEN LET q == SkipChar(line, p, line[p])
             IN  IF q - p >= 3
                 THEN [matched |-> TRUE, indent |-> p - 1,
                       fence0 |-> line[p], length |-> q - p]
                 ELSE NoFence
        ELSE NoFence

\* mutant: the underline has 3 or more characters
setextMatchThreeOrMore(nextLine) ==
    /\ Len(nextLine) >= 3
    /\ nextLine[1] \in {"=", "-"}
    /\ LET q == SkipChar(nextLine, 1, nextLine[1])
       IN  q - 1 >= 3 /\ SkipSpaces(nextLine, q) = Len(nextLine) + 1

\* setextMatch != null: the whole of nextLine is 1 or more "=" or 1 or more "-",
\* then optional white space
setextMatch(nextLine) ==
    /\ Len(nextLine) >= 1
    /\ nextLine[1] \in {"=", "-"}
    /\ LET q == SkipChar(nextLine, 1, nextLine[1])
       IN  SkipSpaces(nextLine, q) = Len(nextLine) + 1

\* atxMatch != null: 1 to 6 "#" at the line start, then 1 or more white space
atxMatch(line) ==
    LET q == SkipChar(line, 1, "#")
    IN  /\ q - 1 >= 1
        /\ q - 1 <= 6
        /\ q <= Len(line)
        /\ IsSpace(line[q])

\* 1 or more white space then 1 or more non-space, matched at position p
SpacesThenText(line, p) ==
    /\ p <= Len(line)
    /\ IsSpace(line[p])
    /\ SkipSpaces(line, p) <= Len(line)

\* "[", 1 or more characters other than "]", "]" matched at position s: the
\* position of the closing bracket, 0 when there is no match
BracketAt(line, s) ==
    IF s <= Len(line) /\ line[s] = "["
    THEN LET e == SkipLabel(line, s + 1)
         IN  IF e <= Len(line) /\ e > s + 1 THEN e ELSE 0
    ELSE 0

\* refLinkPattern.exec(line) of findReferenceLinkDefinitions: optional white
\* space, a bracketed label without "]", ":", white space, text; label is match[1]
defPatternExec(line) ==
    LET p == SkipSpaces(line, 1)
        e == BracketAt(line, p)
    IN  IF /\ e # 0
           /\ e + 1 <= Len(line)
           /\ line[e + 1] = ":"
           /\ SpacesThenText(line, e + 2)
        THEN [matched |-> TRUE, label |-> SubSeq(line, p + 1, e - 1)]
        ELSE [matched |-> FALSE, label |-> <<>>]

\* mutant: no line is taken for a definition
lastPatternTestNever(line) == FALSE

\* refLinkPattern.test(line) of findLastContentLine: as above, but the label is
\* 1 or more characters of any kind, "]" included
lastPatternTest(line) ==
    LET p == SkipSpaces(line, 1)
    IN  /\ p <= Len(line)
        /\ line[p] = "["
        /\ \E k \in (p + 2)..Len(line) :
              /\ line[k] = "]"
              /\ k + 1 <= Len(line)
              /\ line[k + 1] = ":"
              /\ SpacesThenText(line, k + 2)

\* the definition test of findReferenceLinkUsages: the pattern of
\* findReferenceLinkDefinitions
usageSkipTest(line) == defPatternExec(line).matched

\* fullRefPattern matched at position s: a bracketed text then a bracketed
\* label; the position of the label's closing bracket, 0 when there is no match
fullRefEnd(line, s) ==
    LET b == BracketAt(line, s)
    IN  IF b # 0 THEN BracketAt(line, b + 1) ELSE 0

\* the negative lookahead of shortcutRefPattern fails at position p: optional
\* white space then ":", "[" or "("
FollowedByColonOrBracket(line, p) ==
    LET q == SkipSpaces(line, p)
    IN  q <= Len(line) /\ line[q] \in {":", "[", "("}

\* shortcutRefPattern matched at position s: a bracketed label not followed by
\* ":", "[" or "("; the position of the closing bracket, 0 when no match
shortcutRefEnd(line, s) ==
    LET e == BracketAt(line, s)
    IN  IF e # 0 /\ ~FollowedByColonOrBracket(line, e + 1) THEN e ELSE 0

\* the while loop over fullRefPattern.exec(line), lastIndex = from - 1: the
\* labels pushed, in order
RECURSIVE fullRefLabels(_, _)
fullRefLabels(line, from) ==
    LET starts == {s \in from..Len(line) : fullRefEnd(line, s) # 0}
    IN  IF starts = {} THEN <<>>
        ELSE LET s == SetMin(starts)
                 e == fullRefEnd(line, s)
             IN  <<SubSeq(line, BracketAt(line, s) + 2, e - 1)>>
                     \o fullRefLabels(line, e + 1)

\* the while loop over shortcutRefPattern.exec(line): a match preceded by "["
\* or "!" is skipped
RECURSIVE shortcutRefLabels(_, _)
shortcutRefLabels(line, from) ==
    LET starts == {s \in from..Len(line) : shortcutRefEnd(line, s) # 0}
    IN  IF starts = {} THEN <<>>
        ELSE LET s == SetMin(starts)
                 e == shortcutRefEnd(line, s)
                 skipped == s > 1 /\ line[s - 1] \in {"[", "!"}
             IN  (IF skipped THEN <<>> ELSE <<SubSeq(line, s + 1, e - 1)>>)
                     \o shortcutRefLabels(line, e + 1)

\* the labels one line contributes to findReferenceLinkUsages, lower-cased
lineUsageLabels(line) ==
    LET found == fullRefLabels(line, 1) \o shortcutRefLabels(line, 1)
    IN  [k \in 1..Len(found) |-> toLowerCase(found[k])]

----------------------------------------------------------------------------
(* findCodeBlockLines *)

FenceClosed == [inCodeBlock |-> FALSE, codeBlockFence |-> "",
                codeBlockFenceLength |-> 0]

\* mutant: a shorter fence of the opening character closes the fence
codeBlockClosesAnyLength(fm, st) == fm.fence0 = st.codeBlockFence

\* the closing test of findCodeBlockLines
codeBlockCloses(fm, st) ==
    /\ fm.fence0 = st.codeBlockFence
    /\ fm.length >= st.codeBlockFenceLength

\* one iteration of the loop of findCodeBlockLines: the scan state after line
codeBlockStep(st, line) ==
    LET fm == fenceMatch(line)
    IN  IF fm.matched
        THEN IF ~st.inCodeBlock
             THEN [inCodeBlock |-> TRUE, codeBlockFence |-> fm.fence0,
                   codeBlockFenceLength |-> fm.length]
             ELSE IF codeBlockCloses(fm, st) THEN FenceClosed
             ELSE st
        ELSE st

\* the scan state of findCodeBlockLines after the first k lines
RECURSIVE codeBlockState(_, _)
codeBlockState(ls, k) ==
    IF k = 0 THEN FenceClosed
    ELSE codeBlockStep(codeBlockState(ls, k - 1), ls[k])

\* the loop of findCodeBlockLines from index k on, in scan state st: the
\* indices added, which are every fence line and every line met in a block
RECURSIVE codeBlockScan(_, _, _)
codeBlockScan(ls, k, st) ==
    IF k >= Len(ls) THEN {}
    ELSE (IF fenceMatch(ls[k + 1]).matched \/ st.inCodeBlock THEN {k} ELSE {})
             \cup codeBlockScan(ls, k + 1, codeBlockStep(st, ls[k + 1]))

\* mutant: the lines between the fences are not added
findCodeBlockLinesFencesOnly(ls) ==
    {k \in 0..(Len(ls) - 1) : fenceMatch(ls[k + 1]).matched}

\* the set of 0-based indices findCodeBlockLines returns
findCodeBlockLines(ls) == codeBlockScan(ls, 0, FenceClosed)

----------------------------------------------------------------------------
(* findLastContentLine, findReferenceLinkDefinitions, findReferenceLinkUsages *)

\* the for loop of findLastContentLine, at index k going down to startLine - 1
RECURSIVE lastContentLoop(_, _, _, _)
lastContentLoop(ls, codeBlockLines, k, startLine) ==
    IF k < startLine - 1 THEN 0
    ELSE IF k \in codeBlockLines
         THEN lastContentLoop(ls, codeBlockLines, k - 1, startLine)
    ELSE IF Len(Trim(ls[k + 1])) = 0
         THEN lastContentLoop(ls, codeBlockLines, k - 1, startLine)
    ELSE IF lastPatternTest(ls[k + 1])
         THEN lastContentLoop(ls, codeBlockLines, k - 1, startLine)
    ELSE k + 1

\* mutant: the lines of fenced code blocks are not skipped
findLastContentLineIntoFences(ls, startLine, endLine) ==
    lastContentLoop(ls, {}, endLine - 1, startLine)

findLastContentLine(ls, startLine, endLine) ==
    lastContentLoop(ls, findCodeBlockLines(ls), endLine - 1, startLine)

\* the for loop of findReferenceLinkDefinitions, at index k going up to endLine
RECURSIVE definitionsLoop(_, _, _, _)
definitionsLoop(ls, codeBlockLines, k, endLine) ==
    IF k >= endLine THEN <<>>
    ELSE IF k \in codeBlockLines
         THEN definitionsLoop(ls, codeBlockLines, k + 1, endLine)
    ELSE LET match == defPatternExec(ls[k + 1])
         IN  (IF match.matched
              THEN <<[lineNumber |-> k + 1, label |-> match.label]>>
              ELSE <<>>)
                 \o definitionsLoop(ls, codeBlockLines, k + 1, endLine)

\* mutant: the lines of fenced code blocks are searched as well
findReferenceLinkDefinitionsIntoFences(ls, startLine, endLine) ==
    definitionsLoop(ls, {}, startLine - 1, endLine)

findReferenceLinkDefinitions(ls, startLine, endLine) ==
    definitionsLoop(ls, findCodeBlockLines(ls), startLine - 1, endLine)

\* the for loop of findReferenceLinkUsages, at index k going up to endLine
RECURSIVE usagesLoop(_, _, _, _)
usagesLoop(ls, codeBlockLines, k, endLine) ==
    IF k >= endLine THEN <<>>
    ELSE IF k \in codeBlockLines
         THEN usagesLoop(ls, codeBlockLines, k + 1, endLine)
    ELSE IF usageSkipTest(ls[k + 1])
         THEN usagesLoop(ls, codeBlockLines, k + 1, endLine)
    ELSE LET labels == lineUsageLabels(ls[k + 1])
         IN  [u \in 1..Len(labels) |->
                 [lineNumber |-> k + 1, label |-> labels[u]]]
                 \o usagesLoop(ls, codeBlockLines, k + 1, endLine)

findReferenceLinkUsages(ls, startLine, endLine) ==
    usagesLoop(ls, findCodeBlockLines(ls), startLine - 1, endLine)

----------------------------------------------------------------------------
(* parseContentBlocks, one loop iteration per step *)

Block(startLine, endLine) == [startLine |-> startLine, endLine |-> endLine]

\* mutant: a shorter fence of the opening character closes the fence
parseClosesAnyLength(fm) == fm.fence0 = codeBlockFence

\* the closing test of parseContentBlocks
parseCloses(fm) ==
    /\ fm.fence0 = codeBlockFence
    /\ fm.length >= codeBlockFenceLength

\* mutant: the underline is not looked at
isSetextHeadingAnyNextLine(line, nextLine) == Len(Trim(line)) > 0

\* an underline-style heading at line, with nextLine as its underline
isSetextHeading(line, nextLine) ==
    setextMatch(nextLine) /\ Len(Trim(line)) > 0

\* mutant: the block in progress is pushed even when it has no line
blockHasContentAlways(k) == k >= blockStartLine - 1

\* "close current block if it has content", at loop index k
blockHasContent(k) == k > blockStartLine - 1

\* mutant: the underline is not skipped
afterSetextKeepsUnderline(k) == k + 2

\* the start of the next block after an underline-style heading at index k
afterSetext(k) == k + 3

\* mutant: the next block starts at the heading line
afterAtxAtHeading(k) == k + 1

\* the start of the next block after a prefix-style heading at index k
afterAtx(k) == k + 2

\* blocks.push of the block in progress when a heading is met at index k
closeBlockAt(k) ==
    IF blockHasContent(k)
    THEN Append(blocks, Block(blockStartLine, k))
    ELSE blocks

ParseLine ==
    /\ pc = "parse"
    /\ i < Len(lines)
    /\ LET line == lines[i + 1]
           nextLine == IF i + 1 < Len(lines) THEN lines[i + 2] ELSE <<>>
           fm == fenceMatch(line)
       IN  IF fm.matched
           THEN /\ IF ~inCodeBlock
                   THEN /\ inCodeBlock' = TRUE
                        /\ codeBlockFence' = fm.fence0
                        /\ codeBlockFenceLength' = fm.length
                   ELSE IF parseCloses(fm)
                   THEN /\ inCodeBlock' = FALSE
                        /\ codeBlockFence' = ""
                        /\ codeBlockFenceLength' = 0
                   ELSE UNCHANGED <<inCodeBlock, codeBlockFence,
                                    codeBlockFenceLength>>
                /\ i' = i + 1
                /\ UNCHANGED <<blockStartLine, blocks, headings>>
           ELSE IF inCodeBlock
           THEN /\ i' = i + 1
                /\ UNCHANGED <<inCodeBlock, codeBlockFence, codeBlockFenceLength,
                               blockStartLine, blocks, headings>>
           ELSE IF isSetextHeading(line, nextLine)
           THEN /\ blocks' = closeBlockAt(i)
                /\ blockStartLine' = afterSetext(i)
                /\ i' = i + 2
                /\ headings' = Append(headings, [first |-> i + 1, last |-> i + 2])
                /\ UNCHANGED <<inCodeBlock, codeBlockFence, codeBlockFenceLength>>
           ELSE IF atxMatch(line)
           THEN /\ blocks' = closeBlockAt(i)
                /\ blockStartLine' = afterAtx(i)
                /\ i' = i + 1
                /\ headings' = Append(headings, [first |-> i + 1, last |-> i + 1])
                /\ UNCHANGED <<inCodeBlock, codeBlockFence, codeBlockFenceLength>>
           ELSE /\ i' = i + 1
                /\ UNCHANGED <<inCodeBlock, codeBlockFence, codeBlockFenceLength,
                               blockStartLine, blocks, headings>>
    /\ UNCHANGED <<lines, pc, labelUsageBlock, ub, cb, errors>>
    /\ UNCHANGED otherVars

\* mutant: a last block of one line is dropped
lastBlockOpenStrict == blockStartLine < Len(lines)

\* "Close the last block": the test before the last push
lastBlockOpen == blockStartLine <= Len(lines)

\* the end of the loop, the last push and the return; the rule goes on to its
\* first loop
ParseClose ==
    /\ pc = "parse"
    /\ i >= Len(lines)
    /\ blocks' = IF lastBlockOpen
                 THEN Append(blocks, Block(blockStartLine, Len(lines)))
                 ELSE blocks
    /\ pc' = IF Len(blocks') = 0 THEN "done" ELSE "index"
    /\ UNCHANGED <<lines, i, inCodeBlock, codeBlockFence, codeBlockFenceLength,
                   blockStartLine, headings, labelUsageBlock, ub, cb, errors>>
    /\ UNCHANGED otherVars

----------------------------------------------------------------------------
(* The rule function of reference-link-section-placement *)

CrossBlock == "should be in the same content block where it is used"
NotAtEnd == "should be at content block end"

\* labelUsageBlock.has(label)
mapHas(map, label) == \E k \in 1..Len(map) : map[k].label = label

\* labelUsageBlock.get(label)
mapGet(map, label) ==
    map[CHOOSE k \in 1..Len(map) : map[k].label = label].block

\* mutant: a later usage overwrites the entry of its label
recordUsageLast(map, label, block) ==
    IF ~mapHas(map, label)
    THEN Append(map, [label |-> label, block |-> block])
    ELSE [k \in 1..Len(map) |->
             IF map[k].label = label
             THEN [label |-> label, block |-> block]
             ELSE map[k]]

\* "Only record the first usage of each label"
recordUsage(map, label, block) ==
    IF ~mapHas(map, label)
    THEN Append(map, [label |-> label, block |-> block])
    ELSE map

\* the inner loop of the first pass, from usage k on
RECURSIVE recordUsages(_, _, _, _)
recordUsages(map, usages, k, block) ==
    IF k > Len(usages) THEN map
    ELSE recordUsages(recordUsage(map, usages[k].label, block), usages, k + 1,
                      block)

\* "definition is in a different block than usage"
inOtherBlock(usageBlock, block) ==
    \/ usageBlock.startLine # block.startLine
    \/ usageBlock.endLine # block.endLine

\* mutant: off by one
beforeContentEndByTwo(lineNumber, lastContentLine) ==
    lineNumber + 1 < lastContentLine

\* "definition is before content ends in its block"
beforeContentEnd(lineNumber, lastContentLine) == lineNumber < lastContentLine

\* mutant: the violation is anchored at the line after the definition's
ViolationAtNextLine(ls, refLink, detail) ==
    [lineNumber |-> refLink.lineNumber + 1,
     label |-> refLink.label,
     detail |-> detail,
     context |-> Trim(ls[refLink.lineNumber])]

\* the argument of an onError call
Violation(ls, refLink, detail) ==
    [lineNumber |-> refLink.lineNumber,
     label |-> refLink.label,
     detail |-> detail,
     context |-> Trim(ls[refLink.lineNumber])]

\* mutant: the label of the definition is looked up as written
checkRefLinkRawLabel(ls, map, block, lastContentLine, refLink) ==
    LET label == refLink.label
    IN  IF mapHas(map, label) /\ inOtherBlock(mapGet(map, label), block)
        THEN <<Violation(ls, refLink, CrossBlock)>>
        ELSE IF beforeContentEnd(refLink.lineNumber, lastContentLine)
        THEN <<Violation(ls, refLink, NotAtEnd)>>
        ELSE <<>>

\* mutant: the loop body goes on to the second test after a CrossBlock report
checkRefLinkNoContinue(ls, map, block, lastContentLine, refLink) ==
    LET label == toLowerCase(refLink.label)
    IN  (IF mapHas(map, label) /\ inOtherBlock(mapGet(map, label), block)
         THEN <<Violation(ls, refLink, CrossBlock)>>
         ELSE <<>>)
            \o (IF beforeContentEnd(refLink.lineNumber, lastContentLine)
                THEN <<Violation(ls, refLink, NotAtEnd)>>
                ELSE <<>>)

\* the body of the loop over refLinks: the onError calls for one definition
checkRefLink(ls, map, block, lastContentLine, refLink) ==
    LET label == toLowerCase(refLink.label)
    IN  IF mapHas(map, label) /\ inOtherBlock(mapGet(map, label), block)
        THEN <<Violation(ls, refLink, CrossBlock)>>
        ELSE IF beforeContentEnd(refLink.lineNumber, lastContentLine)
        THEN <<Violation(ls, refLink, NotAtEnd)>>
        ELSE <<>>

\* mutant: the loop over refLinks ends at the first violation
RECURSIVE checkRefLinksStopAtFirst(_, _, _, _, _, _)
checkRefLinksStopAtFirst(ls, map, block, lastContentLine, refLinks, k) ==
    IF k > Len(refLinks) THEN <<>>
    ELSE LET found == checkRefLink(ls, map, block, lastContentLine, refLinks[k])
         IN  IF found # <<>> THEN found
             ELSE checkRefLinksStopAtFirst(ls, map, block, lastContentLine,
                                           refLinks, k + 1)

\* the loop over refLinks, from definition k on
RECURSIVE checkRefLinks(_, _, _, _, _, _)
checkRefLinks(ls, map, block, lastContentLine, refLinks, k) ==
    IF k > Len(refLinks) THEN <<>>
    ELSE checkRefLink(ls, map, block, lastContentLine, refLinks[k])
             \o checkRefLinks(ls, map, block, lastContentLine, refLinks, k + 1)

\* mutant: the definitions of labels used nowhere are not checked
checkBlockUsedOnly(ls, map, block) ==
    LET refLinks ==
            SelectSeq(findReferenceLinkDefinitions(ls, block.startLine,
                                                   block.endLine),
                      LAMBDA r : mapHas(map, toLowerCase(r.label)))
    IN  IF Len(refLinks) = 0 THEN <<>>
        ELSE checkRefLinks(ls, map, block,
                           findLastContentLine(ls, block.startLine,
                                               block.endLine),
                           refLinks, 1)

\* the body of the second loop: the onError calls for one block
checkBlock(ls, map, block) ==
    LET refLinks == findReferenceLinkDefinitions(ls, block.startLine,
                                                 block.endLine)
    IN  IF Len(refLinks) = 0 THEN <<>>
        ELSE checkRefLinks(ls, map, block,
                           findLastContentLine(ls, block.startLine,
                                               block.endLine),
                           refLinks, 1)

\* one iteration of the first loop over blocks
IndexBlock ==
    /\ pc = "index"
    /\ ub <= Len(blocks)
    /\ labelUsageBlock' =
           recordUsages(labelUsageBlock,
                        findReferenceLinkUsages(lines, blocks[ub].startLine,
                                                blocks[ub].endLine),
                        1, blocks[ub])
    /\ ub' = ub + 1
    /\ pc' = IF ub = Len(blocks) THEN "check" ELSE "index"
    /\ UNCHANGED <<lines, i, inCodeBlock, codeBlockFence, codeBlockFenceLength,
                   blockStartLine, blocks, headings, cb, errors>>
    /\ UNCHANGED otherVars

\* one iteration of the second loop over blocks
CheckBlock ==
    /\ pc = "check"
    /\ cb <= Len(blocks)
    /\ errors' = errors \o checkBlock(lines, labelUsageBlock, blocks[cb])
    /\ cb' = cb + 1
    /\ pc' = IF cb = Len(blocks) THEN "done" ELSE "check"
    /\ UNCHANGED <<lines, i, inCodeBlock, codeBlockFence, codeBlockFenceLength,
                   blockStartLine, blocks, headings, labelUsageBlock, ub>>
    /\ UNCHANGED otherVars

----------------------------------------------------------------------------
(* The rule function of fenced-code-fence-length (HM002) *)

\* config?.min_fence_length ?? 4
minFenceLength == 4

Max(a, b) == IF a >= b THEN a ELSE b

\* String.prototype.repeat
repeat(c, n) == [k \in 1..n |-> c]

NoFencePattern == [matched |-> FALSE, indent |-> <<>>, fence |-> <<>>,
                   info |-> <<>>]

\* fencePattern.exec(line): white space, 3 or more backticks or 3 or more
\* tildes, the rest of the line; the three groups are indent, fence and info
fencePatternExec(line) ==
    LET p == SkipSpaces(line, 1)
    IN  IF p <= Len(line) /\ line[p] \in {Backtick, "~"}
        THEN LET q == SkipChar(line, p, line[p])
             IN  IF q - p >= 3
                 THEN [matched |-> TRUE,
                       indent |-> SubSeq(line, 1, p - 1),
                       fence |-> SubSeq(line, p, q - 1),
                       info |-> SubSeq(line, q, Len(line))]
                 ELSE NoFencePattern
        ELSE NoFencePattern

\* the four detail messages, with the numbers they are built from
TooShortBackticks(actualLength) ==
    [message |-> "Expected at least N tildes, found M backticks",
     n |-> minFenceLength, m |-> actualLength]
FoundBackticks ==
    [message |-> "Expected tildes, found backticks", n |-> 0, m |-> 0]
TooShort(actualLength) ==
    [message |-> "Expected at least N tildes, found M",
     n |-> minFenceLength, m |-> actualLength]
Mismatched(actualLength, openingLength) ==
    [message |-> "Closing fence length (N) does not match opening fence length (M)",
     n |-> actualLength, m |-> openingLength]

\* the argument of an onError call of the rule
FenceError(line, match, lineNumber, detail, insertText) ==
    [lineNumber |-> lineNumber,
     detail |-> detail,
     context |-> Trim(line),
     range |-> <<Len(match.indent) + 1, Len(match.fence)>>,
     fixInfo |-> [lineNumber |-> lineNumber,
                  deleteCount |-> Len(line),
                  insertText |-> insertText]]

\* the onError calls for an opening fence
openingFenceErrors(line, match, lineNumber) ==
    LET actualLength == Len(match.fence)
        isBacktick == match.fence[1] = Backtick
        tooShort == actualLength < minFenceLength
        detail == IF isBacktick /\ tooShort THEN TooShortBackticks(actualLength)
                  ELSE IF isBacktick THEN FoundBackticks
                  ELSE TooShort(actualLength)
        fixLength == Max(actualLength, minFenceLength)
    IN  IF isBacktick \/ tooShort
        THEN <<FenceError(line, match, lineNumber, detail,
                          match.indent \o repeat("~", fixLength) \o match.info)>>
        ELSE <<>>

\* mutant: the indentation of the closing fence is not looked at
closesFenceAnyIndent(match) ==
    /\ match.fence[1] = openingFenceChar
    /\ Len(match.fence) >= openingFenceLength

\* the closing test: the character of the opening fence, at the same or a
\* greater indentation, with the same or a greater length
closesFence(match) ==
    /\ match.fence[1] = openingFenceChar
    /\ Len(match.indent) >= Len(openingIndent)
    /\ Len(match.fence) >= openingFenceLength

\* mutant: the fix gives the closing fence the length of the opening fence
closingFixLengthOfOpening(openingLength) == openingLength

\* "match the opening fence length (or minimum if too short)"
closingFixLength(openingLength) == Max(openingLength, minFenceLength)

\* the onError calls for a closing fence
closingFenceErrors(line, match, lineNumber, openingLength) ==
    LET actualLength == Len(match.fence)
        isBacktick == match.fence[1] = Backtick
        tooShort == actualLength < minFenceLength
        mismatchedLength == ~tooShort /\ ~isBacktick
                                /\ actualLength # openingLength
        detail == IF isBacktick /\ tooShort THEN TooShortBackticks(actualLength)
                  ELSE IF isBacktick THEN FoundBackticks
                  ELSE IF tooShort THEN TooShort(actualLength)
                  ELSE Mismatched(actualLength, openingLength)
    IN  IF isBacktick \/ tooShort \/ mismatchedLength
        THEN <<FenceError(line, match, lineNumber, detail,
                          match.indent
                              \o repeat("~", closingFixLength(openingLength)))>>
        ELSE <<>>

\* one iteration of the loop over the lines
FenceLine ==
    /\ pc = "fence"
    /\ i < Len(lines)
    /\ LET line == lines[i + 1]
           match == fencePatternExec(line)
       IN  IF ~match.matched
           THEN UNCHANGED <<inCodeBlock, openingFenceChar, openingFenceLength,
                            openingIndent, errors>>
           ELSE IF ~inCodeBlock
           THEN /\ inCodeBlock' = TRUE
                /\ openingFenceChar' = match.fence[1]
                /\ openingFenceLength' = Len(match.fence)
                /\ openingIndent' = match.indent
                /\ errors' = errors \o openingFenceErrors(line, match, i + 1)
           ELSE IF closesFence(match)
           THEN /\ inCodeBlock' = FALSE
                /\ errors' = errors \o closingFenceErrors(line, match, i + 1,
                                                           openingFenceLength)
                /\ openingFenceChar' = ""
                /\ openingFenceLength' = 0
                /\ openingIndent' = <<>>
           ELSE UNCHANGED <<inCodeBlock, openingFenceChar, openingFenceLength,
                            openingIndent, errors>>
    /\ i' = i + 1
    /\ UNCHANGED <<lines, pc, codeBlockFence, codeBlockFenceLength>>
    /\ UNCHANGED placementVars

\* the end of the loop: the rule function returns
FenceReturn ==
    /\ pc = "fence"
    /\ i >= Len(lines)
    /\ pc' = "done"
    /\ UNCHANGED <<lines, i, inCodeBlock, codeBlockFence, codeBlockFenceLength,
                   openingFenceChar, openingFenceLength, openingIndent, errors>>
    /\ UNCHANGED placementVars

----------------------------------------------------------------------------
(* The rule function of setext-heading-blank-lines (HM004) *)

\* config?.lines_before_h1 ?? 1 and config?.lines_before_h2 ?? 2
linesBeforeH1 == 1
linesBeforeH2 == 2

\* the loop that counts the blank lines before the heading text: from index
\* j down, until a line that is not blank
RECURSIVE blankLineCount(_, _)
blankLineCount(ls, j) ==
    IF j < 0 THEN 0
    ELSE IF Len(Trim(ls[j + 1])) = 0 THEN 1 + blankLineCount(ls, j - 1)
    ELSE 0

\* the argument of the onError call: k is the index of the underline, which
\* is the line number of the heading text
SetextError(ls, k, isH1, found) ==
    LET requiredBlankLines == IF isH1 THEN linesBeforeH1 ELSE linesBeforeH2
    IN  [lineNumber |-> k,
         detail |-> [message |-> "Expected N blank line(s) before hL, found M",
                     n |-> requiredBlankLines,
                     level |-> IF isH1 THEN 1 ELSE 2,
                     m |-> found],
         context |-> Trim(ls[k]),
         fixInfo |-> [lineNumber |-> k,
                      insertText |-> repeat("\n", requiredBlankLines - found)]]

\* the onError calls for an underline at index k >= 0 outside a code block
setextErrors(ls, k) ==
    IF k = 0 THEN <<>>
    ELSE IF Len(Trim(ls[k])) = 0 THEN <<>>
    ELSE LET isH1 == ls[k + 1][1] = "="
             requiredBlankLines == IF isH1 THEN linesBeforeH1
                                   ELSE linesBeforeH2
             found == blankLineCount(ls, k - 2)
         IN  IF k - 2 - found < 0 THEN <<>>
             ELSE IF found < requiredBlankLines
             THEN <<SetextError(ls, k, isH1, found)>>
             ELSE <<>>

\* one iteration of the loop over the lines
SetextLine ==
    /\ pc = "setext"
    /\ i < Len(lines)
    /\ LET line == lines[i + 1]
           fm == fenceMatch(line)
       IN  IF fm.matched
           THEN /\ IF ~inCodeBlock
                   THEN /\ inCodeBlock' = TRUE
                        /\ codeBlockFence' = fm.fence0
                        /\ codeBlockFenceLength' = fm.length
                   ELSE IF parseCloses(fm)
                   THEN /\ inCodeBlock' = FALSE
                        /\ codeBlockFence' = ""
                        /\ codeBlockFenceLength' = 0
                   ELSE UNCHANGED <<inCodeBlock, codeBlockFence,
                                    codeBlockFenceLength>>
                /\ UNCHANGED errors
           ELSE /\ UNCHANGED <<inCodeBlock, codeBlockFence,
                               codeBlockFenceLength>>
                /\ errors' = IF ~inCodeBlock /\ setextMatch(line)
                             THEN errors \o setextErrors(lines, i)
                             ELSE errors
    /\ i' = i + 1
    /\ UNCHANGED <<lines, pc, openingFenceChar, openingFenceLength,
                   openingIndent>>
    /\ UNCHANGED placementVars

\* the end of the loop: the rule function returns
SetextReturn ==
    /\ pc = "setext"
    /\ i >= Len(lines)
    /\ pc' = "done"
    /\ UNCHANGED <<lines, i, inCodeBlock, codeBlockFence, codeBlockFenceLength,
                   openingFenceChar, openingFenceLength, openingIndent, errors>>
    /\ UNCHANGED placementVars

----------------------------------------------------------------------------
(* The rule function of list-item-marker-space (HM001) *)

\* config?.nested_indent ?? 4 and config?.post_marker_spaces ?? 2
nestedIndent == 4
postMarkerSpaces == 2

NoListItem == [matched |-> FALSE, leadingSpaces |-> <<>>, marker |-> "",
               spacesAfter |-> <<>>, content |-> <<>>]

\* listItemPattern.exec(line): white space, one of the markers "-", "*", "+",
\* 1 or more white space, the rest of the line
listItemPatternExec(line) ==
    LET p == SkipSpaces(line, 1)
    IN  IF p <= Len(line) /\ line[p] \in {"-", "*", "+"}
        THEN LET q == SkipSpaces(line, p + 1)
             IN  IF q > p + 1
                 THEN [matched |-> TRUE,
                       leadingSpaces |-> SubSeq(line, 1, p - 1),
                       marker |-> line[p],
                       spacesAfter |-> SubSeq(line, p + 1, q - 1),
                       content |-> SubSeq(line, q, Len(line))]
                 ELSE NoListItem
        ELSE NoListItem

\* Math.round of (leadingCount - 1) / nestedIndent, for leadingCount >= 1
roundedLevel(leadingCount) ==
    (2 * (leadingCount - 1) + nestedIndent) \div (2 * nestedIndent)

\* the argument of an onError call of the rule
ListError(line, lineNumber, detail, range, leading, content) ==
    [lineNumber |-> lineNumber,
     detail |-> detail,
     context |-> Trim(line),
     range |-> range,
     fixInfo |-> [lineNumber |-> lineNumber,
                  deleteCount |-> Len(line),
                  insertText |-> repeat(" ", leading) \o <<"-">>
                                    \o repeat(" ", postMarkerSpaces)
                                    \o content]]

\* the onError calls for the line at index k
listItemErrors(ls, k) ==
    LET line == ls[k + 1]
        match == listItemPatternExec(line)
        leadingCount == Len(match.leadingSpaces)
        spacesAfterCount == Len(match.spacesAfter)
        isValidLeading == /\ leadingCount >= 1
                          /\ (leadingCount - 1) % nestedIndent = 0
        nestingLevel == IF isValidLeading
                        THEN (leadingCount - 1) \div nestedIndent
                        ELSE 0
        expectedLeading == 1 + nestingLevel * nestedIndent
        correctedLeading == IF leadingCount < 1 THEN 1
                            ELSE 1 + roundedLevel(leadingCount) * nestedIndent
    IN  IF ~match.matched THEN <<>>
        ELSE IF match.marker # "-" THEN <<>>
        ELSE IF ~isValidLeading \/ leadingCount # expectedLeading
        THEN <<ListError(line, k + 1,
                         [message |-> "Expected N leading space(s), found M",
                          n |-> correctedLeading, m |-> leadingCount],
                         <<1, leadingCount + 1>>,
                         correctedLeading, match.content)>>
        ELSE IF spacesAfterCount # postMarkerSpaces
        THEN <<ListError(line, k + 1,
                         [message |-> "Expected N space(s) after marker, found M",
                          n |-> postMarkerSpaces, m |-> spacesAfterCount],
                         <<leadingCount + 2, spacesAfterCount>>,
                         leadingCount, match.content)>>
        ELSE <<>>

\* one iteration of the loop over the lines
ListLine ==
    /\ pc = "list"
    /\ i < Len(lines)
    /\ errors' = errors \o listItemErrors(lines, i)
    /\ i' = i + 1
    /\ UNCHANGED <<lines, pc, inCodeBlock, codeBlockFence, codeBlockFenceLength,
                   openingFenceChar, openingFenceLength, openingIndent>>
    /\ UNCHANGED placementVars

\* the end of the loop: the rule function returns
ListReturn ==
    /\ pc = "list"
    /\ i >= Len(lines)
    /\ pc' = "done"
    /\ UNCHANGED <<lines, i, inCodeBlock, codeBlockFence, codeBlockFenceLength,
                   openingFenceChar, openingFenceLength, openingIndent, errors>>
    /\ UNCHANGED placementVars

----------------------------------------------------------------------------
(* A further call of the HM003 rule function *)

\* what a call returns and reports, with the document it was given
Returned == [lines |-> lines, blocks |-> blocks, errors |-> errors]

\* mutant: the fence flag is kept from the call before
keptInCodeBlock == inCodeBlock

\* "let inCodeBlock = false": the flag is a local of the call
newInCodeBlock == FALSE

\* markdownlint calls the rule function again, on document doc: every local
\* of the function and of parseContentBlocks is declared anew
CallAgain(doc) ==
    /\ log' = Append(log, Returned)
    /\ lines' = doc
    /\ given' = doc
    /\ pc' = "parse"
    /\ i' = 0
    /\ inCodeBlock' = newInCodeBlock
    /\ codeBlockFence' = ""
    /\ codeBlockFenceLength' = 0
    /\ blockStartLine' = 1
    /\ blocks' = <<>>
    /\ headings' = <<>>
    /\ labelUsageBlock' = <<>>
    /\ ub' = 1
    /\ cb' = 1
    /\ errors' = <<>>
    /\ UNCHANGED <<openingFenceChar, openingFenceLength, openingIndent>>

----------------------------------------------------------------------------
(* Documents *)

Blank == <<>>
Prose == <<"t">>
Atx == <<"#", " ", "t">>
Dashes == <<"-", "-", "-">>
Equals == <<"=", "=", "=">>
Tilde3 == <<"~", "~", "~">>
Tilde4 == <<"~", "~", "~", "~">>
UseA == <<"[", "a", "]">>
\* a definition of the label "a", written in upper case
DefA == <<"[", "A", "]", ":", " ", "u">>
\* a line findLastContentLine takes for a definition and
\* findReferenceLinkDefinitions does not
LooseDef == <<"[", "a", "]", "]", ":", " ", "u">>

\* lines of the reference-placement documents
RefLines == {Blank, Prose, Atx, Dashes, Tilde3, UseA, DefA}

\* the same with the loosely matched definition line in place of the dashes
LooseLines == {Blank, Prose, Atx, Tilde3, UseA, DefA, LooseDef}

\* lines of the segmentation documents
SegLines == {Blank, Prose, Atx, Dashes, Equals, Tilde3, Tilde4}

\* the documents of at most n lines over a vocabulary
DocsUpTo(Vocabulary, n) == UNION {[1..k -> Vocabulary] : k \in 0..n}

Docs(Vocabulary) == DocsUpTo(Vocabulary, MaxLen)

\* the state at the first call of a rule function: its locals as declared,
\* entry being the first loop of the rule
Called(entry) ==
    /\ given = lines
    /\ log = <<>>
    /\ pc = entry
    /\ i = 0
    /\ inCodeBlock = FALSE
    /\ codeBlockFence = ""
    /\ codeBlockFenceLength = 0
    /\ openingFenceChar = ""
    /\ openingFenceLength = 0
    /\ openingIndent = <<>>
    /\ blockStartLine = 1
    /\ blocks = <<>>
    /\ headings = <<>>
    /\ labelUsageBlock = <<>>
    /\ ub = 1
    /\ cb = 1
    /\ errors = <<>>

\* the state at the call of the HM003 rule function on a document
Start(Vocabulary) ==
    /\ lines \in Docs(Vocabulary)
    /\ Called("parse")

\* an indented continuation line of a definition
Indented == <<" ", "t">>

\* a definition, a continuation line, a blank line, a paragraph
MultiBodies ==
    {<<DefA, c, Blank, para>> : c \in {Prose, Indented}, para \in {Prose, UseA}}

\* lines around a multi-line definition: blank lines, usages, headings
CtxLines == {Blank, UseA, Atx}

\* a multi-line definition followed by a paragraph, with at most MaxCtx lines
\* before it and after it
MultiDocs ==
    {pre \o body \o post :
        pre \in DocsUpTo(CtxLines, MaxCtx),
        body \in MultiBodies,
        post \in DocsUpTo(CtxLines, MaxCtx)}

\* a full reference and a collapsed reference to the label "a"
FullA == <<"[", "t", "]", "[", "a", "]">>
CollapsedA == <<"[", "a", "]", "[", "]">>

\* lines of the documents with the three reference forms
FormLines == {Prose, Atx, Tilde3, UseA, FullA, CollapsedA, DefA}

Tilde5 == <<"~", "~", "~", "~", "~">>
Tick3 == <<Backtick, Backtick, Backtick>>
Tick4 == <<Backtick, Backtick, Backtick, Backtick>>
\* a fence of four tildes after one space, and one with an info string
IndentedTilde4 == <<" ", "~", "~", "~", "~">>
TildeInfo == <<"~", "~", "~", "~", " ", "t">>

\* lines of the documents of the fence rule
FenceLines == {Prose, Tilde3, Tilde4, Tilde5, Tick3, Tick4, IndentedTilde4,
               TildeInfo}

\* lines of the documents of the heading rule
SetextLines == {Blank, Prose, Dashes, Equals, Tilde3}

\* list items: as the rule wants them, without the leading space and with
\* one space after the marker
GoodItem == <<" ", "-", " ", " ", "t">>
BareItem == <<"-", " ", "t">>
TightItem == <<" ", "-", " ", "t">>

\* lines of the documents of the list rule
ListLines == {Blank, Prose, Tilde3, Tilde4, GoodItem, BareItem, TightItem}

\* lines of the documents that are linted more than once
RerunLines == {Prose, Atx, Tilde3, UseA, DefA}

\* another document: it ends inside a fence and with a label in the index
OtherDoc == <<UseA, Tilde3>>

\* the rule is called again, on the first document or on the other one
Rerun ==
    /\ pc = "done"
    /\ Len(log) + 1 < MaxRuns
    /\ \E doc \in {Append(log, Returned)[1].lines, OtherDoc} : CallAgain(doc)

Init == Start(RefLines)
InitLoose == Start(LooseLines)
InitSeg == Start(SegLines)
InitMulti == lines \in MultiDocs /\ Called("parse")
InitRerun == Start(RerunLines)
InitForms == Start(FormLines)
InitFence == lines \in Docs(FenceLines) /\ Called("fence")
InitList == lines \in Docs(ListLines) /\ Called("list")

\* a title, a blank line and a section heading take five lines
InitSetext == lines \in DocsUpTo(SetextLines, MaxLen + 1) /\ Called("setext")

Next == ParseLine \/ ParseClose \/ IndexBlock \/ CheckBlock

Spec == Init /\ [][Next]_vars
SpecLoose == InitLoose /\ [][Next]_vars
SpecSeg == InitSeg /\ [][Next]_vars
SpecMulti == InitMulti /\ [][Next]_vars
SpecForms == InitForms /\ [][Next]_vars

NextFence == FenceLine \/ FenceReturn
SpecFence == InitFence /\ [][NextFence]_vars

NextSetext == SetextLine \/ SetextReturn
SpecSetext == InitSetext /\ [][NextSetext]_vars

NextList == ListLine \/ ListReturn
SpecList == InitList /\ [][NextList]_vars

NextRerun == Next \/ Rerun
SpecRerun == InitRerun /\ [][NextRerun]_vars

----------------------------------------------------------------------------
(* Vocabulary of the properties *)

Range(f) == {f[k] : k \in DOMAIN f}

InBlock(l, b) == b.startLine <= l /\ l <= b.endLine
InHeading(l, h) == h.first <= l /\ l <= h.last

\* parseContentBlocks has returned
Parsed == pc # "parse"

\* the blocks and the heading constructs that hold line number l
BlocksOf(l) == {k \in 1..Len(blocks) : InBlock(l, blocks[k])}
HeadingsOf(l) == {k \in 1..Len(headings) : InHeading(l, headings[k])}

\* line l is outside every fenced code block, code being the set of indices
\* findCodeBlockLines returns
OutsideFence(code, l) == (l - 1) \notin code

IsBlank(l) == Len(Trim(lines[l])) = 0

\* the violations reported at line l, in order
ErrorsAt(l) == SelectSeq(errors, LAMBDA e : e.lineNumber = l)

\* the definitions and the usages of the whole document
allDefs == findReferenceLinkDefinitions(lines, 1, Len(lines))
allUsages == findReferenceLinkUsages(lines, 1, Len(lines))

LineNumbers(found) == {found[k].lineNumber : k \in 1..Len(found)}

\* the lines among usages that hold a usage of the lower-cased label L
UsageLines(usages, L) ==
    {usages[k].lineNumber : k \in {j \in 1..Len(usages) : usages[j].label = L}}

\* the definitions among defs of the lower-cased label L
DefsOf(defs, L) == {k \in 1..Len(defs) : toLowerCase(defs[k].label) = L}

\* the blocks that hold a usage of the lower-cased label L
UsageBlocks(usages, L) ==
    {k \in 1..Len(blocks) :
        \E l \in UsageLines(usages, L) : InBlock(l, blocks[k])}

\* the first block in document order with a usage of L is not block b
FirstUsedElsewhere(usages, L, b) ==
    LET used == UsageBlocks(usages, L)
    IN  used # {} /\ SetMin(used) # b

----------------------------------------------------------------------------
(* C1: coverage *)

\* C1: once parseContentBlocks has returned, every line number of 1..n lies in
\* exactly one block or exactly one heading construct, every block and every
\* heading construct lies within 1..n, and the blocks are listed in strictly
\* increasing order without overlap.
C1_Partition ==
    Parsed =>
        /\ \A l \in 1..Len(lines) :
              Cardinality(BlocksOf(l)) + Cardinality(HeadingsOf(l)) = 1
        /\ \A k \in 1..Len(blocks) :
              1 <= blocks[k].startLine /\ blocks[k].endLine <= Len(lines)
        /\ \A k \in 1..Len(headings) :
              1 <= headings[k].first /\ headings[k].last <= Len(lines)
        /\ \A k \in 1..(Len(blocks) - 1) :
              blocks[k].endLine < blocks[k + 1].startLine

\* a block, an underline-style heading, a block
C1_Witness ==
    /\ pc = "done"
    /\ Len(blocks) = 2
    /\ \E k \in 1..Len(headings) :
          /\ headings[k].last = headings[k].first + 1
          /\ blocks[1].endLine < headings[k].first
          /\ headings[k].last < blocks[2].startLine

----------------------------------------------------------------------------
(* C6: a heading with no line after it *)

\* the heading construct k is followed by at least one line that is not the
\* first line of the next heading
HasBody(k) ==
    /\ headings[k].last < Len(lines)
    /\ \A j \in 1..Len(headings) : headings[j].first # headings[k].last + 1

\* the blocks that start right after heading construct k
BlocksAfter(k) ==
    {b \in 1..Len(blocks) : blocks[b].startLine = headings[k].last + 1}

\* C6 as claimed: every heading has exactly one block after it, empty
\* (endLine = startLine - 1) when no line follows the heading.
C6_Claimed ==
    Parsed =>
        \A k \in 1..Len(headings) :
            /\ Cardinality(BlocksAfter(k)) = 1
            /\ ~HasBody(k) =>
                  \A b \in BlocksAfter(k) :
                      blocks[b].endLine = blocks[b].startLine - 1

\* C6: a heading immediately followed by another heading or by the end of the
\* document gets no block; a heading followed by a line gets exactly one, and
\* every block pushed has startLine <= endLine.
C6_NoEmptyBlock ==
    Parsed =>
        /\ \A b \in 1..Len(blocks) : blocks[b].startLine <= blocks[b].endLine
        /\ \A k \in 1..Len(headings) :
              Cardinality(BlocksAfter(k)) = IF HasBody(k) THEN 1 ELSE 0

\* two headings with no line in between, and a heading ending the document
C6_Witness ==
    /\ pc = "done"
    /\ \E k \in 1..(Len(headings) - 1) :
          headings[k + 1].first = headings[k].last + 1
    /\ headings[Len(headings)].last = Len(lines)
    /\ Len(blocks) = 1

----------------------------------------------------------------------------
(* C7: no heading *)

\* C7 as claimed: without a heading there is exactly one block, 1..n.
C7_Claimed ==
    (Parsed /\ headings = <<>>) => blocks = <<Block(1, Len(lines))>>

\* C7: without a heading, a document of n >= 1 lines gives exactly the block
\* 1..n, and the empty document gives no block.
C7_OneBlock ==
    (Parsed /\ headings = <<>>) =>
        blocks = IF Len(lines) = 0 THEN <<>> ELSE <<Block(1, Len(lines))>>

\* a document without heading which holds a heading-like line inside a fence
C7_Witness ==
    /\ pc = "done"
    /\ headings = <<>>
    /\ Len(lines) >= 2
    /\ \E l \in 1..Len(lines) : atxMatch(lines[l])

----------------------------------------------------------------------------
(* C8: headings are block boundaries *)

\* the start of the block in progress when heading construct k is met
StartBefore(k) == IF k = 1 THEN 1 ELSE headings[k - 1].last + 1

\* every prefix-style heading line outside a fence, and every non-blank line
\* outside a fence followed by an underline, is met as a heading
C8_EveryHeadingMet ==
    LET code == findCodeBlockLines(lines)
    IN  /\ \A l \in 1..Len(lines) :
              (OutsideFence(code, l) /\ atxMatch(lines[l])) =>
                  \E k \in 1..Len(headings) : headings[k].first = l
        /\ \A l \in 1..(Len(lines) - 1) :
              (/\ OutsideFence(code, l)
               /\ ~setextMatch(lines[l])
               /\ isSetextHeading(lines[l], lines[l + 1])) =>
                  \E k \in 1..Len(headings) :
                      headings[k] = [first |-> l, last |-> l + 1]

----------------------------------------------------------------------------
(* C2: cross-block detection *)

\* definition d stands in block b and the first usage of its label in the
\* document stands in another block
C2_Case(usages, d, b) ==
    LET us == UsageLines(usages, toLowerCase(d.label))
    IN  /\ InBlock(d.lineNumber, blocks[b])
        /\ us # {}
        /\ \E a \in 1..Len(blocks) : a # b /\ InBlock(SetMin(us), blocks[a])

\* C2: a definition whose label is first used in a block other than its own
\* gets exactly one violation, at its line, with the CrossBlock reason.
C2_CrossBlock ==
    pc = "done" =>
        LET defs == allDefs
            usages == allUsages
        IN  \A d \in Range(defs) : \A b \in 1..Len(blocks) :
                C2_Case(usages, d, b) =>
                    /\ Len(ErrorsAt(d.lineNumber)) = 1
                    /\ ErrorsAt(d.lineNumber)[1].detail = CrossBlock
                    /\ ErrorsAt(d.lineNumber)[1].label = d.label

\* a cross-block definition that is also followed by prose in its block
C2_Witness ==
    /\ pc = "done"
    /\ \E d \in Range(allDefs) : \E b \in 1..Len(blocks) :
          /\ C2_Case(allUsages, d, b)
          /\ d.lineNumber < blocks[b].endLine
          /\ lines[blocks[b].endLine] = Prose

----------------------------------------------------------------------------
(* C3: mid-block detection *)

\* definition d stands in block b and a later line of b, outside any fence,
\* is non-blank and is not returned as a definition
C3_ClaimedCase(code, d, b) ==
    /\ InBlock(d.lineNumber, blocks[b])
    /\ \E l \in (d.lineNumber + 1)..blocks[b].endLine :
          /\ OutsideFence(code, l)
          /\ ~IsBlank(l)
          /\ ~defPatternExec(lines[l]).matched

C3_Case(code, d, b) ==
    /\ InBlock(d.lineNumber, blocks[b])
    /\ \E l \in (d.lineNumber + 1)..blocks[b].endLine :
          /\ OutsideFence(code, l)
          /\ ~IsBlank(l)
          /\ ~lastPatternTest(lines[l])

----------------------------------------------------------------------------
(* C4: same-block correctness *)

\* the label L is used on one line and defined once, both in block b, and
\* only blank lines and fenced code follow the definition in b
C4_Case(defs, usages, code, L, b) ==
    /\ Cardinality(UsageLines(usages, L)) = 1
    /\ Cardinality(DefsOf(defs, L)) = 1
    /\ \A l \in UsageLines(usages, L) : InBlock(l, blocks[b])
    /\ \A k \in DefsOf(defs, L) :
          /\ InBlock(defs[k].lineNumber, blocks[b])
          /\ \A l \in (defs[k].lineNumber + 1)..blocks[b].endLine :
                IsBlank(l) \/ ~OutsideFence(code, l)

\* C4: a label used and defined exactly once in one block, its definition
\* the last non-blank, non-fence content of the block, gets no violation.
C4_SameBlockAtEnd ==
    pc = "done" =>
        LET defs == allDefs
            usages == allUsages
            code == findCodeBlockLines(lines)
        IN  \A d \in Range(defs) : \A b \in 1..Len(blocks) :
                C4_Case(defs, usages, code, toLowerCase(d.label), b) =>
                    \A e \in Range(errors) :
                        toLowerCase(e.label) # toLowerCase(d.label)

\* usage, definition, then a fenced code block to the end of the block
C4_Witness ==
    /\ pc = "done"
    /\ \E d \in Range(allDefs) : \E b \in 1..Len(blocks) :
          /\ C4_Case(allDefs, allUsages, findCodeBlockLines(lines),
                     toLowerCase(d.label), b)
          /\ d.lineNumber < blocks[b].endLine
          /\ ~OutsideFence(findCodeBlockLines(lines), blocks[b].endLine)

----------------------------------------------------------------------------
(* C5: fence opacity *)

\* line l is strictly inside a fenced code block: the fence is open before
\* the line and still open after it
InsideFence(l) ==
    /\ codeBlockState(lines, l - 1).inCodeBlock
    /\ codeBlockState(lines, l).inCodeBlock

\* C5: a line strictly inside a fenced code block is no line of a heading
\* construct, and for no range of lines is it returned as a definition, as
\* the line of a usage or as the last content line.
C5_FenceOpacity ==
    LET inside == {l \in 1..Len(lines) : InsideFence(l)}
    IN  inside # {} =>
            /\ \A l \in inside : HeadingsOf(l) = {}
            /\ pc = "done" =>
                  \A s \in 1..Len(lines) : \A e \in s..Len(lines) :
                      /\ inside \cap LineNumbers(
                             findReferenceLinkDefinitions(lines, s, e)) = {}
                      /\ inside \cap LineNumbers(
                             findReferenceLinkUsages(lines, s, e)) = {}
                      /\ findLastContentLine(lines, s, e) \notin inside

\* a fenced code block that holds the text of a definition and of a heading
C5_Witness ==
    /\ pc = "done"
    /\ \E l \in 1..Len(lines) :
          InsideFence(l) /\ defPatternExec(lines[l]).matched
    /\ \E l \in 1..Len(lines) : InsideFence(l) /\ atxMatch(lines[l])

----------------------------------------------------------------------------
(* C9: thematic breaks *)

\* a thematic break: 3 or more of one of "-", "*", "_", with optional spaces
IsThematicBreak(line) ==
    \E c \in {"-", "*", "_"} :
        /\ \A k \in 1..Len(line) : line[k] = c \/ IsSpace(line[k])
        /\ Cardinality({k \in 1..Len(line) : line[k] = c}) >= 3

\* C9 as claimed: a definition with only blank lines between it and a
\* thematic break of its block, the break preceded by a blank line, is not
\* reported NotAtEnd.
C9_Claimed ==
    pc = "done" =>
        LET defs == allDefs
            code == findCodeBlockLines(lines)
        IN  \A d \in Range(defs) : \A b \in 1..Len(blocks) :
                \A t \in (d.lineNumber + 2)..blocks[b].endLine :
                    (/\ InBlock(d.lineNumber, blocks[b])
                     /\ OutsideFence(code, t)
                     /\ IsThematicBreak(lines[t])
                     /\ \A l \in (d.lineNumber + 1)..(t - 1) : IsBlank(l)) =>
                        \A k \in 1..Len(ErrorsAt(d.lineNumber)) :
                            ErrorsAt(d.lineNumber)[k].detail # NotAtEnd

----------------------------------------------------------------------------
(* C10: multi-line definitions *)

\* line l is a continuation line: non-blank, outside any fence, no
\* definition and no thematic break, and the line before it is a definition
\* or a continuation line
RECURSIVE IsContinuation(_, _)
IsContinuation(code, l) ==
    /\ l > 1
    /\ OutsideFence(code, l)
    /\ ~IsBlank(l)
    /\ ~defPatternExec(lines[l]).matched
    /\ ~IsThematicBreak(lines[l])
    /\ OutsideFence(code, l - 1)
    /\ (defPatternExec(lines[l - 1]).matched \/ IsContinuation(code, l - 1))

\* C10 as claimed: a multi-line definition after which its block holds only
\* blank lines, definitions and their continuation lines, and whose label is
\* used in no other block, is not reported.
C10_Claimed ==
    pc = "done" =>
        LET defs == allDefs
            usages == allUsages
            code == findCodeBlockLines(lines)
        IN  \A d \in Range(defs) : \A b \in 1..Len(blocks) :
                (/\ InBlock(d.lineNumber, blocks[b])
                 /\ d.lineNumber < blocks[b].endLine
                 /\ IsContinuation(code, d.lineNumber + 1)
                 /\ UsageBlocks(usages, toLowerCase(d.label)) \subseteq {b}
                 /\ \A l \in (d.lineNumber + 1)..blocks[b].endLine :
                       \/ IsBlank(l)
                       \/ IsContinuation(code, l)
                       \/ (/\ OutsideFence(code, l)
                           /\ defPatternExec(lines[l]).matched)) =>
                    ErrorsAt(d.lineNumber) = <<>>

----------------------------------------------------------------------------
(* C11: a multi-line definition followed by a paragraph *)

\* definition d of block b has continuation lines up to line c, then blank
\* lines only, then a paragraph at line para of b
C11_Case(code, d, b, c, para) ==
    /\ InBlock(d.lineNumber, blocks[b])
    /\ d.lineNumber < c
    /\ c + 1 < para
    /\ InBlock(para, blocks[b])
    /\ \A l \in (d.lineNumber + 1)..c : IsContinuation(code, l)
    /\ \A l \in (c + 1)..(para - 1) : IsBlank(l)
    /\ OutsideFence(code, para)
    /\ ~IsBlank(para)
    /\ ~lastPatternTest(lines[para])
    /\ ~IsThematicBreak(lines[para])

\* C11 as claimed: such a definition gets exactly one violation, NotAtEnd, at
\* its start line.
C11_Claimed ==
    pc = "done" =>
        LET defs == allDefs
            code == findCodeBlockLines(lines)
        IN  \A d \in Range(defs) : \A b \in 1..Len(blocks) :
                \A c, para \in 1..Len(lines) :
                    C11_Case(code, d, b, c, para) =>
                        /\ Len(ErrorsAt(d.lineNumber)) = 1
                        /\ ErrorsAt(d.lineNumber)[1].detail = NotAtEnd

\* C11: a multi-line definition followed, after a blank line, by a paragraph
\* of its block gets exactly one violation, at its start line and none at a
\* continuation line: CrossBlock when the first block that uses its label is
\* another block, NotAtEnd otherwise.
C11_MultiLine ==
    pc = "done" =>
        LET defs == allDefs
            usages == allUsages
            code == findCodeBlockLines(lines)
        IN  \A d \in Range(defs) : \A b \in 1..Len(blocks) :
                \A c, para \in 1..Len(lines) :
                    C11_Case(code, d, b, c, para) =>
                        /\ Len(ErrorsAt(d.lineNumber)) = 1
                        /\ ErrorsAt(d.lineNumber)[1].label = d.label
                        /\ ErrorsAt(d.lineNumber)[1].detail =
                              IF FirstUsedElsewhere(usages,
                                                    toLowerCase(d.label), b)
                              THEN CrossBlock
                              ELSE NotAtEnd
                        /\ \A l \in (d.lineNumber + 1)..c : ErrorsAt(l) = <<>>

\* an indented continuation line, a usage in the block before the definition,
\* and the NotAtEnd violation at the start line
C11_Witness ==
    /\ pc = "done"
    /\ \E d \in Range(allDefs) : \E b \in 1..Len(blocks) :
          /\ C11_Case(findCodeBlockLines(lines), d, b, d.lineNumber + 1,
                      d.lineNumber + 3)
          /\ lines[d.lineNumber + 1] = Indented
          /\ blocks[b].startLine < d.lineNumber
          /\ lines[blocks[b].startLine] = UseA
          /\ Len(errors) = 1
          /\ errors[1].lineNumber = d.lineNumber
          /\ errors[1].detail = NotAtEnd

----------------------------------------------------------------------------
(* C12: labels used nowhere, blocks without definition *)

\* block b holds no definition
NoDefinition(defs, b) ==
    \A d \in Range(defs) : ~InBlock(d.lineNumber, blocks[b])

\* no violation is reported at a line of block b
NoErrorIn(b) == \A e \in Range(errors) : ~InBlock(e.lineNumber, blocks[b])

\* a line of block b after line l, outside any fence, is non-blank and has not
\* the definition form of findLastContentLine
ContentAfter(code, l, b) ==
    \E k \in (l + 1)..blocks[b].endLine :
        /\ OutsideFence(code, k)
        /\ ~IsBlank(k)
        /\ ~lastPatternTest(lines[k])

----------------------------------------------------------------------------
(* C13: order of the violations *)

\* the violations so far were reported for blocks before the next block of
\* the check loop
BlocksInOrder ==
    pc = "check" =>
        \A e \in Range(errors) : e.lineNumber < blocks[cb].startLine

\* the verdict on definition d of block b, taken on its own
OwnVerdict(d, b) ==
    checkRefLink(lines, labelUsageBlock, blocks[b],
                 findLastContentLine(lines, blocks[b].startLine,
                                     blocks[b].endLine),
                 d)

\* C13: at every moment the line numbers reported so far are strictly
\* increasing and belong to blocks before the block checked next; at the end
\* every violation stands at the line of a definition, and the violations at
\* the line of a definition are the verdict on that definition alone.
C13_DocumentOrder ==
    /\ \A k \in 1..(Len(errors) - 1) :
          errors[k].lineNumber < errors[k + 1].lineNumber
    /\ BlocksInOrder
    /\ pc = "done" =>
          LET defs == allDefs
          IN  /\ \A e \in Range(errors) : e.lineNumber \in LineNumbers(defs)
              /\ \A d \in Range(defs) : \A b \in 1..Len(blocks) :
                    InBlock(d.lineNumber, blocks[b]) =>
                        ErrorsAt(d.lineNumber) = OwnVerdict(d, b)

\* three definitions in one block: the first two are reported in line order,
\* the last, at the end of the block, is not
C13_Witness ==
    /\ pc = "done"
    /\ Len(blocks) = 1
    /\ Len(allDefs) = 3
    /\ Len(errors) = 2
    /\ errors[1].lineNumber = allDefs[1].lineNumber
    /\ errors[2].lineNumber = allDefs[2].lineNumber

----------------------------------------------------------------------------
(* C14: determinism and statelessness *)

\* the scan state at the start of a call is the declared one
FreshAtEntry ==
    (pc = "parse" /\ i = 0) =>
        /\ inCodeBlock = FALSE
        /\ codeBlockFence = ""
        /\ codeBlockFenceLength = 0
        /\ blockStartLine = 1
        /\ blocks = <<>>
        /\ labelUsageBlock = <<>>
        /\ errors = <<>>

----------------------------------------------------------------------------
(* C15: the rule completes on every document *)

\* every line number in 1..n
InDocument(l) == 1 <= l /\ l <= Len(lines)

\* the call can take its next step: the loop over the lines goes on or ends,
\* and each loop over the blocks has a block to read
CanStep ==
    \/ pc = "parse" /\ 0 <= i
    \/ pc = "index" /\ 1 <= ub /\ ub <= Len(blocks)
    \/ pc = "check" /\ 1 <= cb /\ cb <= Len(blocks)

\* C15: on every document the call can take its next step until it returns;
\* the loop index stays within the document, every block passed on lies
\* within 1..n, every block of the label index is a block of the document,
\* and every violation is reported at a line within 1..n with that line's
\* text as its excerpt.
C15_NoThrow ==
    /\ pc # "done" => CanStep
    /\ 0 <= i /\ i <= Len(lines)
    /\ \A b \in 1..Len(blocks) :
          InDocument(blocks[b].startLine) /\ InDocument(blocks[b].endLine)
    /\ \A k \in 1..Len(labelUsageBlock) :
          labelUsageBlock[k].block \in Range(blocks)
    /\ \A e \in Range(errors) :
          /\ InDocument(e.lineNumber)
          /\ e.context = Trim(lines[e.lineNumber])

\* a document that ends inside a fence and holds two definitions of one label,
\* used nowhere, both reported
C15_Witness ==
    /\ pc = "done"
    /\ inCodeBlock
    /\ Len(allDefs) = 2
    /\ allUsages = <<>>
    /\ Len(errors) = 2

----------------------------------------------------------------------------
(* C16: the three reference forms *)

\* the labels referred to on a line in the full form, a bracketed text
\* followed by a bracketed label
FullForms(line) ==
    {SubSeq(line, BracketAt(line, s) + 2, BracketAt(line, BracketAt(line, s) + 1) - 1) :
        s \in {t \in 1..Len(line) :
                  /\ BracketAt(line, t) # 0
                  /\ BracketAt(line, BracketAt(line, t) + 1) # 0}}

\* the labels referred to on a line in the collapsed form, a bracketed label
\* followed by an empty pair of brackets
CollapsedForms(line) ==
    {SubSeq(line, s + 1, BracketAt(line, s) - 1) :
        s \in {t \in 1..Len(line) :
                  /\ BracketAt(line, t) # 0
                  /\ BracketAt(line, t) + 2 <= Len(line)
                  /\ line[BracketAt(line, t) + 1] = "["
                  /\ line[BracketAt(line, t) + 2] = "]"}}

\* the labels referred to on a line in the shortcut form, a bracketed label
\* that stands alone
ShortcutForms(line) ==
    {SubSeq(line, s + 1, BracketAt(line, s) - 1) :
        s \in {t \in 1..Len(line) :
                  /\ BracketAt(line, t) # 0
                  /\ (t = 1 \/ line[t - 1] \notin {"]", "[", "!"})
                  /\ (BracketAt(line, t) = Len(line)
                      \/ line[BracketAt(line, t) + 1] \notin {"[", "(", ":"})}}

\* the label L is recorded as used at line l
Recorded(usages, l, L) ==
    \E k \in 1..Len(usages) :
        usages[k].lineNumber = l /\ usages[k].label = toLowerCase(L)

\* C16 as claimed: on every line outside a fence that is no definition line,
\* the label of every full, collapsed and shortcut reference is recorded by
\* findReferenceLinkUsages as used at that line.
C16_Claimed ==
    pc = "done" =>
        LET usages == allUsages
            code == findCodeBlockLines(lines)
        IN  \A l \in 1..Len(lines) :
                (OutsideFence(code, l) /\ ~defPatternExec(lines[l]).matched) =>
                    \A L \in FullForms(lines[l]) \cup CollapsedForms(lines[l])
                              \cup ShortcutForms(lines[l]) :
                        Recorded(usages, l, L)

\* the same for the full and the shortcut form alone
C16_FullAndShortcut ==
    pc = "done" =>
        LET usages == allUsages
            code == findCodeBlockLines(lines)
        IN  \A l \in 1..Len(lines) :
                (OutsideFence(code, l) /\ ~defPatternExec(lines[l]).matched) =>
                    \A L \in FullForms(lines[l]) \cup ShortcutForms(lines[l]) :
                        Recorded(usages, l, L)

----------------------------------------------------------------------------
(* C17: which fence lines close a code block (HM002) *)

\* the loop of the fence rule is at a fence line
AtFenceLine ==
    /\ pc = "fence"
    /\ i < Len(lines)
    /\ fencePatternExec(lines[i + 1]).matched

\* the fence line at hand has the character of the opening fence, is at
\* least as long and is indented at least as much
MayClose ==
    LET match == fencePatternExec(lines[i + 1])
    IN  /\ match.fence[1] = openingFenceChar
        /\ Len(match.fence) >= openingFenceLength
        /\ Len(match.indent) >= Len(openingIndent)

\* C17: a fence line met while a code block is open closes the block exactly
\* when it has the opening fence's character, at least its length and at
\* least its indentation; over any other fence line the block stays open
\* with the same opening fence, and no error is reported.
C17_ClosingRule ==
    [][(AtFenceLine /\ inCodeBlock) =>
          /\ inCodeBlock' = ~MayClose
          /\ ~MayClose =>
                /\ errors' = errors
                /\ openingFenceChar' = openingFenceChar
                /\ openingFenceLength' = openingFenceLength
                /\ openingIndent' = openingIndent]_vars

\* an indented fence of four tildes is open after a less indented fence, a
\* shorter fence and a fence of backticks, none of them reported
C17_Witness ==
    /\ pc = "fence"
    /\ i = 4
    /\ lines = <<IndentedTilde4, Tilde4, Tilde3, Tick4>>
    /\ inCodeBlock
    /\ openingFenceLength = 4
    /\ errors = <<>>

----------------------------------------------------------------------------
(* C18: what the fence rule reports (HM002) *)

\* the step reports nothing
ReportsNothing == errors' = errors

\* the step reports exactly one error, at the line at hand
ReportsOnce ==
    /\ Len(errors') = Len(errors) + 1
    /\ SubSeq(errors', 1, Len(errors)) = errors
    /\ errors'[Len(errors')].lineNumber = i + 1

\* the fence at hand is of tildes and has the minimum length
LongTildes ==
    LET match == fencePatternExec(lines[i + 1])
    IN  match.fence[1] = "~" /\ Len(match.fence) >= minFenceLength

\* an opening fence is reported exactly once when it is of backticks or too
\* short, and not otherwise
OpeningReported ==
    (AtFenceLine /\ ~inCodeBlock) =>
        IF LongTildes THEN ReportsNothing ELSE ReportsOnce

\* a closing fence of tildes of the minimum length is reported exactly once
\* when its length is not the opening fence's, with a fix of n tildes after
\* its indentation, and not otherwise
ClosingReported(n) ==
    (AtFenceLine /\ inCodeBlock /\ ~inCodeBlock' /\ LongTildes) =>
        LET match == fencePatternExec(lines[i + 1])
        IN  IF Len(match.fence) = openingFenceLength
            THEN ReportsNothing
            ELSE /\ ReportsOnce
                 /\ errors'[Len(errors')].fixInfo.insertText =
                        match.indent \o repeat("~", n)

\* C18 as claimed: the fix of a closing fence of another length rewrites it
\* to the length of the opening fence.
C18_Claimed ==
    [][OpeningReported /\ ClosingReported(openingFenceLength)]_vars

\* C18: every opening fence of backticks or shorter than the minimum is
\* reported exactly once at its line and no other opening fence is; a
\* closing fence of tildes of at least the minimum length is reported exactly
\* once when its length differs from the opening fence's, with a fix that
\* rewrites it to the greater of the opening fence's length and the minimum,
\* and is not reported when the lengths are the same.
C18_Reports ==
    [][/\ OpeningReported
       /\ ClosingReported(Max(openingFenceLength, minFenceLength))]_vars

\* a block opened by three tildes and closed by five: the opening fence is
\* reported as too short, the closing fence with a fix of four tildes
C18_Witness ==
    /\ pc = "done"
    /\ lines = <<Tilde3, Prose, Tilde5>>
    /\ Len(errors) = 2
    /\ errors[1].detail = TooShort(3)
    /\ errors[2].detail = Mismatched(5, 3)
    /\ errors[2].fixInfo.insertText = Tilde4

----------------------------------------------------------------------------
(* C19: a section heading right after the title (HM004) *)

\* lines t and t + 1 are an underline-style heading outside any fence, with
\* the underline character c
SetextHeadingAt(code, t, c) ==
    /\ 1 <= t
    /\ t + 1 <= Len(lines)
    /\ OutsideFence(code, t)
    /\ OutsideFence(code, t + 1)
    /\ ~IsBlank(t)
    /\ ~setextMatch(lines[t])
    /\ setextMatch(lines[t + 1])
    /\ lines[t + 1][1] = c

\* the heading at line t follows the title at line u with nothing but blank
\* lines, at least one, between them
FollowsParent(code, u, t) ==
    /\ SetextHeadingAt(code, u, "=")
    /\ SetextHeadingAt(code, t, "-")
    /\ u + 2 < t
    /\ \A l \in (u + 2)..(t - 1) : IsBlank(l)

\* C19 as claimed: a section heading that follows the title with no content
\* between them, one blank line being enough, is not reported.
C19_Claimed ==
    pc = "done" =>
        LET code == findCodeBlockLines(lines)
        IN  \A u, t \in 1..Len(lines) :
                FollowsParent(code, u, t) => ErrorsAt(t) = <<>>

----------------------------------------------------------------------------
(* C20: list items inside fenced code blocks (HM001) *)

\* line l is a list item with the marker "-" that is not in the wanted format
MisformattedItem(l) ==
    LET match == listItemPatternExec(lines[l])
    IN  /\ match.matched
        /\ match.marker = "-"
        /\ (Len(match.leadingSpaces) - 1) % nestedIndent # 0
               \/ Len(match.spacesAfter) # postMarkerSpaces

\* C20 as claimed: no error is reported at a line inside a fenced code block,
\* and every misformatted list item outside the fenced code blocks is
\* reported at its own line.
C20_Claimed ==
    pc = "done" =>
        LET code == findCodeBlockLines(lines)
        IN  \A l \in 1..Len(lines) :
                IF OutsideFence(code, l)
                THEN MisformattedItem(l) => Len(ErrorsAt(l)) = 1
                ELSE ErrorsAt(l) = <<>>

\* the list items outside the fenced code blocks are reported at their lines
C20_OutsideFences ==
    pc = "done" =>
        LET code == findCodeBlockLines(lines)
        IN  \A l \in 1..Len(lines) :
                (OutsideFence(code, l) /\ MisformattedItem(l)) =>
                    Len(ErrorsAt(l)) = 1

----------------------------------------------------------------------------
(* C21: the index of first usages *)

\* a usage of the label "a" written in upper case, and a usage of "b"
UseUpper == <<"[", "A", "]">>
UseB == <<"[", "b", "]">>

\* lines of the documents with usages in either case and of two labels
IndexLines == {Prose, Atx, Tilde3, UseA, UseUpper, UseB, DefA}

InitIndex == Start(IndexLines)
SpecIndex == InitIndex /\ [][Next]_vars

\* the labels with a usage in one of the first n blocks
UsedLabels(usages, n) ==
    {usages[k].label :
        k \in {j \in 1..Len(usages) :
                  \E b \in 1..n : InBlock(usages[j].lineNumber, blocks[b])}}

\* line l is a usage of the label "a", in either case
UsesA(code, l) == OutsideFence(code, l) /\ lines[l] \in {UseA, UseUpper}

\* C21: after the first n blocks have been indexed, labelUsageBlock has one
\* entry for each label used in them, labels being compared without regard to
\* case, and the entry of a label is the first block in document order that
\* holds a usage of it: usages in later blocks do not change it.
C21_FirstUsage ==
    pc \in {"index", "check", "done"} =>
        LET usages == allUsages
            code == findCodeBlockLines(lines)
            n == ub - 1
            used == UsedLabels(usages, n)
            map == labelUsageBlock
        IN  /\ {map[k].label : k \in 1..Len(map)} = used
            /\ \A j, k \in 1..Len(map) : map[j].label = map[k].label => j = k
            /\ \A L \in used :
                  mapGet(map, L) = blocks[SetMin(UsageBlocks(usages, L))]
            /\ \A b \in 1..n :
                  \A l \in blocks[b].startLine..blocks[b].endLine :
                      UsesA(code, l) =>
                          /\ mapHas(map, <<"a">>)
                          /\ \E f \in 1..b :
                                /\ mapGet(map, <<"a">>) = blocks[f]
                                /\ \A g \in 1..(f - 1) :
                                      \A m \in blocks[g].startLine
                                                   ..blocks[g].endLine :
                                          ~UsesA(code, m)

\* the label is used in upper case in the first block and in lower case in
\* the second: the one entry is the first block
C21_Witness ==
    /\ pc = "done"
    /\ lines = <<UseUpper, Atx, UseA, UseB>>
    /\ labelUsageBlock = <<[label |-> <<"a">>, block |-> Block(1, 1)],
                           [label |-> <<"b">>, block |-> Block(3, 4)]>>

----------------------------------------------------------------------------
(* C22: one violation for a definition at most, CrossBlock first *)

\* the last-content line of block b
LastContentOf(b) ==
    findLastContentLine(lines, blocks[b].startLine, blocks[b].endLine)

\* C22: a definition is reported once at most.  When the first block that
\* uses its label is not its own block it is reported CrossBlock and nothing
\* else; when not, it is reported NotAtEnd if its line is strictly less than
\* the last-content line of its block, and not reported otherwise.
C22_Priority ==
    pc = "done" =>
        LET defs == allDefs
            usages == allUsages
        IN  \A d \in Range(defs) : \A b \in 1..Len(blocks) :
                InBlock(d.lineNumber, blocks[b]) =>
                    LET found == ErrorsAt(d.lineNumber)
                        cross == FirstUsedElsewhere(usages,
                                                    toLowerCase(d.label), b)
                        early == d.lineNumber < LastContentOf(b)
                    IN  /\ Len(found) <= 1
                        /\ cross =>
                              /\ Len(found) = 1
                              /\ found[1].detail = CrossBlock
                        /\ (~cross /\ early) =>
                              /\ Len(found) = 1
                              /\ found[1].detail = NotAtEnd
                        /\ (~cross /\ ~early) => found = <<>>

\* a definition that fails both tests (its label is first used in the block
\* before, and prose follows it) gets the CrossBlock report alone
C22_Witness ==
    /\ pc = "done"
    /\ lines = <<UseA, Atx, DefA, Prose>>
    /\ LastContentOf(2) = 4
    /\ Len(errors) = 1
    /\ errors[1].lineNumber = 3
    /\ errors[1].detail = CrossBlock

----------------------------------------------------------------------------
(* C23: which fence lines open and close a fence in the segmenter *)

\* lines of the documents with fences of both characters, of two lengths and
\* of two indents, and with headings of both styles
TrackLines == {Prose, Atx, Dashes, Tilde3, Tilde4, Tick3, IndentedTilde4}

InitTrack == Start(TrackLines)
SpecTrack == InitTrack /\ [][Next]_vars

NoFenceRun == [active |-> FALSE, character |-> "", length |-> 0, indent |-> 0]

\* the fence run after one more line, by the rule as stated: a fence line opens
\* a fence when none is active, and closes the active one only if its
\* character is the opening character, its run is at least as long as the
\* opening run and its indent is at least the opening indent
fenceRunStep(run, line) ==
    LET fm == fenceMatch(line)
    IN  IF ~fm.matched THEN run
        ELSE IF ~run.active
        THEN [active |-> TRUE, character |-> fm.fence0, length |-> fm.length,
              indent |-> fm.indent]
        ELSE IF /\ fm.fence0 = run.character
                /\ fm.length >= run.length
                /\ fm.indent >= run.indent
        THEN NoFenceRun
        ELSE run

\* the fence run after the first k lines
RECURSIVE FenceRun(_, _)
FenceRun(ls, k) ==
    IF k = 0 THEN NoFenceRun ELSE fenceRunStep(FenceRun(ls, k - 1), ls[k])

\* C23 as claimed: after every line the segmenter is inside a fence exactly
\* when the fence run with the three closing conditions (character, length,
\* indent) is active, with the same opening character and length.
C23_Claimed ==
    pc = "parse" =>
        LET run == FenceRun(lines, i)
        IN  /\ inCodeBlock = run.active
            /\ codeBlockFence = run.character
            /\ codeBlockFenceLength = run.length

\* what the segmenter does: a step at a fence line opens a fence when none is
\* active, closes the active one when the character is the opening character
\* and the run is at least as long, whatever the indent, and changes nothing
\* otherwise
C23_CharacterAndLength ==
    [][(pc = "parse" /\ i < Len(lines) /\ fenceMatch(lines[i + 1]).matched) =>
          LET fm == fenceMatch(lines[i + 1])
          IN  IF ~inCodeBlock
              THEN /\ inCodeBlock'
                   /\ codeBlockFence' = fm.fence0
                   /\ codeBlockFenceLength' = fm.length
              ELSE IF fm.fence0 = codeBlockFence
                      /\ fm.length >= codeBlockFenceLength
              THEN ~inCodeBlock'
              ELSE UNCHANGED <<inCodeBlock, codeBlockFence,
                               codeBlockFenceLength>>]_vars

----------------------------------------------------------------------------
(* C24: underline-style headings *)

\* underlines of one character, of two, and of three with a trailing space
Dash1 == <<"-">>
Equals2 == <<"=", "=">>
DashesSpace == <<"-", "-", "-", " ">>

\* lines of the documents with underlines of several lengths
UnderLines == {Blank, Prose, Dashes, Dash1, Equals2, DashesSpace, Tilde3}

InitUnder == Start(UnderLines)
SpecUnder == InitUnder /\ [][Next]_vars

\* line consists of n or more "=" or n or more "-", then of white space only
UnderlineOf(line, n) ==
    \E c \in {"=", "-"} :
        \E q \in (n + 1)..(Len(line) + 1) :
            /\ \A k \in 1..(q - 1) : line[k] = c
            /\ \A k \in q..Len(line) : IsSpace(line[k])

\* line l was taken as the underline of the heading whose text is line l - 1
TakenAsUnderline(l) ==
    \E h \in Range(headings) : h.first = l - 1 /\ h.last = l

\* line l was met as the text line of an underline-style heading
UnderlineHeadingAt(l) ==
    \E h \in Range(headings) : h.first = l /\ h.last = l + 1

\* line l, outside any fence and not taken as an underline itself, is an
\* underline-style heading exactly when it is not blank and the next line is
\* an underline of n or more characters
UnderlineRule(n) ==
    Parsed =>
        LET code == findCodeBlockLines(lines)
        IN  \A l \in 1..Len(lines) :
                (OutsideFence(code, l) /\ ~TakenAsUnderline(l)) =>
                    (UnderlineHeadingAt(l) <=>
                        /\ ~IsBlank(l)
                        /\ l + 1 <= Len(lines)
                        /\ UnderlineOf(lines[l + 1], n))

\* C24 as claimed: the underline has 3 or more characters; a non-blank line
\* followed by a shorter underline is not a heading.
C24_Claimed == UnderlineRule(3)

\* C24: outside any fence, a line that is not itself the underline of the
\* heading before it is an underline-style heading exactly when it is not
\* blank and the next line consists of 1 or more "=" or 1 or more "-" followed
\* by white space only; three dashes after a non-blank line are an underline.
C24_Underline == UnderlineRule(1)

\* a line of text followed by one dash is a heading, and so is the line of
\* text followed by three dashes
C24_Witness ==
    /\ pc = "done"
    /\ lines = <<Prose, Dash1, Prose, Dashes>>
    /\ headings = <<[first |-> 1, last |-> 2], [first |-> 3, last |-> 4]>>
    /\ blocks = <<>>

----------------------------------------------------------------------------
(* C25: dashes after a blank line or after a heading line *)

\* line l is a line of three or more dashes outside any fence
DashesAt(code, l) ==
    /\ OutsideFence(code, l)
    /\ UnderlineOf(lines[l], 3)
    /\ lines[l][1] = "-"

\* the line before line l is blank, or is a prefix-style heading line
AfterBlankOrHeading(code, l) ==
    /\ l >= 2
    /\ \/ IsBlank(l - 1)
       \/ OutsideFence(code, l - 1) /\ atxMatch(lines[l - 1])

\* line l belongs to no heading construct and lies in a block
StaysInBlock(l) == HeadingsOf(l) = {} /\ BlocksOf(l) # {}

\* C25 as claimed: a line of dashes after a blank line or after a prefix-style
\* heading line is no part of a heading: it makes no boundary and lies in
\* the block that follows the boundary before it.
C25_Claimed ==
    Parsed =>
        LET code == findCodeBlockLines(lines)
        IN  \A l \in 1..Len(lines) :
                (DashesAt(code, l) /\ AfterBlankOrHeading(code, l)) =>
                    StaysInBlock(l)

\* what the segmenter does with dashes after a blank line: they stay in the
\* block unless the line after them is an underline, which makes the dashes
\* a heading text line
C25_AfterBlank ==
    Parsed =>
        LET code == findCodeBlockLines(lines)
        IN  \A l \in 2..Len(lines) :
                (DashesAt(code, l) /\ IsBlank(l - 1)) =>
                    (StaysInBlock(l) <=>
                        ~(l + 1 <= Len(lines) /\ setextMatch(lines[l + 1])))

----------------------------------------------------------------------------
(* C26: a fence that is never closed *)

\* lines of the documents with a fence that a shorter fence does not close,
\* headings of both styles, a usage and a definition
OpenLines == {Prose, Atx, Dashes, Tilde3, Tilde4, UseA, DefA}

InitOpen == Start(OpenLines)
SpecOpen == InitOpen /\ [][Next]_vars

\* line o opens a fence and no later line closes it: every later fence line
\* has another character or a shorter run
OpenToEnd(o) ==
    LET opening == fenceMatch(lines[o])
    IN  /\ ~codeBlockState(lines, o - 1).inCodeBlock
        /\ opening.matched
        /\ \A k \in (o + 1)..Len(lines) :
              LET fm == fenceMatch(lines[k])
              IN  ~(/\ fm.matched
                    /\ fm.fence0 = opening.fence0
                    /\ fm.length >= opening.length)

\* C26: when the fence opened at line o is never closed, the segmenter is
\* inside the fence from line o to the end of the document; no heading is met
\* and no block starts after line o, the last block runs from at or before
\* line o to the last line, and no definition, usage or violation is found
\* at line o or after it.
C26_Unterminated ==
    \A o \in 1..Len(lines) :
        OpenToEnd(o) =>
            /\ i >= o => inCodeBlock
            /\ \A h \in Range(headings) : h.last < o
            /\ \A b \in Range(blocks) : b.startLine <= o
            /\ Parsed =>
                  /\ blocks # <<>>
                  /\ blocks[Len(blocks)].startLine <= o
                  /\ blocks[Len(blocks)].endLine = Len(lines)
                  /\ \A d \in Range(allDefs) : d.lineNumber < o
                  /\ \A u \in Range(allUsages) : u.lineNumber < o
                  /\ \A e \in Range(errors) : e.lineNumber < o

\* a fence of four tildes is not closed by the three tildes after it: the
\* heading line and the definition after them stay in the fence
C26_Witness ==
    /\ pc = "done"
    /\ lines = <<Tilde4, Tilde3, Atx, DefA>>
    /\ OpenToEnd(1)
    /\ inCodeBlock
    /\ headings = <<>>
    /\ blocks = <<Block(1, 4)>>
    /\ errors = <<>>

----------------------------------------------------------------------------
(* C27: the last-content line of a range *)

\* line l is content: not blank, outside every fenced code block, and no line
\* of a definition, continuation lines included
IsContent(code, l) ==
    /\ ~IsBlank(l)
    /\ OutsideFence(code, l)
    /\ ~defPatternExec(lines[l]).matched
    /\ ~IsContinuation(code, l)

\* the highest content line of startLine..endLine, 0 when there is none
HighestContent(code, startLine, endLine) ==
    LET content == {l \in startLine..endLine : IsContent(code, l)}
    IN  IF content = {} THEN 0 ELSE SetMax(content)

\* C27 as claimed: for the range of every block, findLastContentLine returns
\* the highest line that is not blank, not in a fenced code block and not a
\* line of a definition (start line or continuation line), and 0 when the
\* range has no such line.
C27_Claimed ==
    Parsed =>
        LET code == findCodeBlockLines(lines)
        IN  \A b \in 1..Len(blocks) :
                LastContentOf(b) =
                    HighestContent(code, blocks[b].startLine, blocks[b].endLine)

----------------------------------------------------------------------------
(* C28: the two fence trackers agree *)

\* the fence state of the segmenter
SegmenterState ==
    [inCodeBlock |-> inCodeBlock, codeBlockFence |-> codeBlockFence,
     codeBlockFenceLength |-> codeBlockFenceLength]

\* the segmenter skips the line it stands at as a fence line or as a line
\* inside a fence
SkipsNextLine == fenceMatch(lines[i + 1]).matched \/ inCodeBlock

\* C28: after every line the segmenter is in the fence state findCodeBlockLines
\* is in after the same lines (open or closed, opening character, opening
\* length); the segmenter skips a line as a fence line or a line inside a
\* fence exactly when findCodeBlockLines returns its index, and no line of a
\* heading is among them.
C28_SameTracking ==
    LET code == findCodeBlockLines(lines)
    IN  /\ SegmenterState = codeBlockState(lines, i)
        /\ (pc = "parse" /\ i < Len(lines)) => (SkipsNextLine <=> i \in code)
        /\ \A h \in Range(headings) : \A l \in h.first..h.last :
              OutsideFence(code, l)

\* after a fence of four tildes, a fence of three and a fence of backticks,
\* neither of which closes it, both trackers are inside the fence opened first
C28_Witness ==
    /\ pc = "parse"
    /\ i = 4
    /\ lines = <<Prose, Tilde4, Tilde3, Tick3>>
    /\ SegmenterState = [inCodeBlock |-> TRUE, codeBlockFence |-> "~",
                         codeBlockFenceLength |-> 4]
    /\ findCodeBlockLines(lines) = {1, 2, 3}

----------------------------------------------------------------------------
(* C29: the last-content line is no definition line *)

\* the definitions findReferenceLinkDefinitions returns for block b
DefsIn(b) ==
    findReferenceLinkDefinitions(lines, blocks[b].startLine, blocks[b].endLine)

\* definition line l of block b is in the trailing run of the block: only
\* blank lines and other definitions follow it
InTrailingRun(defs, l, b) ==
    \A k \in (l + 1)..blocks[b].endLine :
        IsBlank(k) \/ k \in LineNumbers(defs)

\* C29: the last-content line of a block is never the line of a definition
\* of that block, and a definition followed in its block by blank lines and
\* other definitions only is never reported NotAtEnd.
C29_TrailingRun ==
    Parsed =>
        \A b \in 1..Len(blocks) :
            LET defs == DefsIn(b)
            IN  /\ LastContentOf(b) \notin LineNumbers(defs)
                /\ pc = "done" =>
                      \A d \in Range(defs) :
                          InTrailingRun(defs, d.lineNumber, b) =>
                              \A e \in Range(ErrorsAt(d.lineNumber)) :
                                  e.detail # NotAtEnd

\* a block made of two definitions and a blank line: it has no content line
\* and nothing is reported
C29_Witness ==
    /\ pc = "done"
    /\ lines = <<Atx, DefA, Blank, DefA>>
    /\ blocks = <<Block(2, 4)>>
    /\ Len(DefsIn(1)) = 2
    /\ LastContentOf(1) = 0
    /\ errors = <<>>

----------------------------------------------------------------------------
(* C30: where the violations stand *)

\* C30: every violation reported so far stands at a line that lies in one of
\* the blocks and in no heading construct, outside every fenced code block,
\* and that is the start line of a definition; its label is the label of
\* that definition as written.
C30_AtDefinitions ==
    LET code == findCodeBlockLines(lines)
    IN  \A e \in Range(errors) :
            /\ e.lineNumber \in 1..Len(lines)
            /\ BlocksOf(e.lineNumber) # {}
            /\ HeadingsOf(e.lineNumber) = {}
            /\ OutsideFence(code, e.lineNumber)
            /\ defPatternExec(lines[e.lineNumber]).matched
            /\ e.label = defPatternExec(lines[e.lineNumber]).label

\* a definition line that is the text line of a heading is not reported; the
\* definition of the block after it, followed by prose, is
C30_Witness ==
    /\ pc = "done"
    /\ lines = <<DefA, Dashes, DefA, Prose>>
    /\ headings = <<[first |-> 1, last |-> 2]>>
    /\ blocks = <<Block(3, 4)>>
    /\ Len(errors) = 1
    /\ errors[1].lineNumber = 3
    /\ errors[1].label = <<"A">>

====
